---- MODULE Spec2Model ----
(***************************************************************************)
(* Model of the create-convexity-n-layer-template scaffolding CLI.         *)
(*                                                                         *)
(* The repository holds two variants of the same command action:          *)
(*   "bin"     - src/bin/index.js                                          *)
(*   "unnamed" - src/unnamed/part_000                                      *)
(* The variable `variant` selects which file a run executes.               *)
(*                                                                         *)
(* Strings are sequences of one-character strings, so that trim,           *)
(* toLowerCase, the regular-expression replacements and                    *)
(* String.prototype.replace are computed character by character.           *)
(***************************************************************************)
EXTENDS Integers, Sequences, FiniteSets, TLC

VARIABLES
    variant,      \* which source file runs: "bin" | "unnamed"
    pc,           \* position of the command action
    argv,         \* the command line: positional name and the flags given
    options,      \* the options object cac hands to the action
    projectName,  \* the action's projectName variable
    dir,          \* state of targetDir on disk
    pkg,          \* contents of targetDir/package.json, or NoFile
    pkgIn,        \* package.json as the clone delivered it (history)
    slug,         \* the slug computed by slugify
    repoSpec,     \* the action's repoSpec variable
    dirAtFetch,   \* dir as it was when the first clone started (history)
    effects,      \* filesystem, fetch and subprocess calls made, in order
    out,          \* lines printed to the console, in order
    exitCode      \* process exit code

vars == <<variant, pc, argv, options, projectName, dir, pkg, pkgIn, slug,
          repoSpec, dirAtFetch, effects, out, exitCode>>

----------------------------------------------------------------------------
(* Bounds *)

\* longest project name enumerated for slugify
MaxLen == 4

----------------------------------------------------------------------------
(* Characters and strings *)

UpperCase == <<"A","B","C","D","E","F","G","H","I","J","K","L","M",
               "N","O","P","Q","R","S","T","U","V","W","X","Y","Z">>
LowerCase == <<"a","b","c","d","e","f","g","h","i","j","k","l","m",
               "n","o","p","q","r","s","t","u","v","w","x","y","z">>
Digits == {"0","1","2","3","4","5","6","7","8","9"}

\* characters matched by \s (and removed by trim)
WhiteSpace == {" ", "\t", "\n"}

\* the class [a-z0-9-_.] of slugify's second replace
SlugChars == {LowerCase[i] : i \in 1..26} \cup Digits \cup {"-", "_", "."}

ToLowerChar(c) ==
    IF \E i \in 1..26 : UpperCase[i] = c
    THEN LowerCase[CHOOSE i \in 1..26 : UpperCase[i] = c]
    ELSE c

toLowerCase(s) == [i \in 1..Len(s) |-> ToLowerChar(s[i])]

RECURSIVE TrimStart(_)
TrimStart(s) ==
    IF s # <<>> /\ Head(s) \in WhiteSpace THEN TrimStart(Tail(s)) ELSE s

RECURSIVE TrimEnd(_)
TrimEnd(s) ==
    IF s # <<>> /\ s[Len(s)] \in WhiteSpace
    THEN TrimEnd(SubSeq(s, 1, Len(s) - 1))
    ELSE s

trim(s) == TrimEnd(TrimStart(s))

StartsWith(s, p) == Len(s) >= Len(p) /\ SubSeq(s, 1, Len(p)) = p

\* .replace(/\s+/g, '-'): every maximal run of whitespace becomes one hyphen
RECURSIVE ReplaceWhiteSpaceRuns(_)
ReplaceWhiteSpaceRuns(s) ==
    IF s = <<>> THEN <<>>
    ELSE IF Head(s) \in WhiteSpace
         THEN <<"-">> \o ReplaceWhiteSpaceRuns(TrimStart(s))
         ELSE <<Head(s)>> \o ReplaceWhiteSpaceRuns(Tail(s))

\* .replace(/[^a-z0-9-_.]/g, '-'): every character outside the class
ReplaceNonSlugChars(s) ==
    [i \in 1..Len(s) |-> IF s[i] \in SlugChars THEN s[i] ELSE "-"]

\* .replace(/-+/g, '-'): every maximal run of hyphens becomes one hyphen
RECURSIVE CollapseHyphensLeaky(_)
CollapseHyphensLeaky(s) ==
    IF Len(s) < 3 THEN s
    ELSE IF s[1] = "-" /\ s[2] = "-"
         THEN CollapseHyphensLeaky(Tail(s))
         ELSE <<Head(s)>> \o CollapseHyphensLeaky(Tail(s))

RECURSIVE CollapseHyphens(_)
CollapseHyphens(s) ==
    IF Len(s) < 2 THEN s
    ELSE IF s[1] = "-" /\ s[2] = "-"
         THEN CollapseHyphens(Tail(s))
         ELSE <<Head(s)>> \o CollapseHyphens(Tail(s))

\* .replace(/(^-|-$)/g, ''): one hyphen at the start, one at the end
StripEdgeHyphens(s) ==
    LET a == IF s # <<>> /\ Head(s) = "-" THEN Tail(s) ELSE s
    IN  IF a # <<>> /\ a[Len(a)] = "-" THEN SubSeq(a, 1, Len(a) - 1) ELSE a

slugify(name) ==
    StripEdgeHyphens(
        CollapseHyphens(
            ReplaceNonSlugChars(
                ReplaceWhiteSpaceRuns(
                    toLowerCase(trim(name))))))

----------------------------------------------------------------------------
(* Program constants *)

PROJECT_NAME_TOKEN ==
    <<"_","_","P","R","O","J","E","C","T","_","N","A","M","E","_","_">>
PROJECT_SLUG_TOKEN ==
    <<"_","_","P","R","O","J","E","C","T","_","S","L","U","G","_","_">>
TEMPLATE_NAME ==
    <<"c","o","n","v","e","x","i","t","y","-","n","-","l","a","y","e","r",
      "-","t","e","m","p","l","a","t","e">>
GITHUB_PREFIX == <<"g","i","t","h","u","b",":">>
DefaultTemplate == <<"t","e","m","p","l","a","t","e">>
DefaultRepoBin ==
    <<"w","r","a","p","p","e","d","c","b","d","c","/">> \o TEMPLATE_NAME
DefaultRepoUnnamed == GITHUB_PREFIX \o DefaultRepoBin

NoFile == [exists |-> FALSE, text |-> <<>>]
File(text) == [exists |-> TRUE, text |-> text]

Line(msg, arg) == [msg |-> msg, arg |-> arg]
Effect(op, ok, arg) == [op |-> op, ok |-> ok, arg |-> arg]

----------------------------------------------------------------------------
(* String.prototype.replace(/pattern/g, replacement) with a string          *)
(* replacement: $$, $&, $` and $' are special in the replacement; the      *)
(* patterns used have no capture group, so $1..$9 stay literal.            *)

RECURSIVE ExpandReplacement(_, _, _, _)
ExpandReplacement(repl, matched, before, after) ==
    IF repl = <<>> THEN <<>>
    ELSE IF Head(repl) = "$" /\ Len(repl) >= 2 /\ repl[2] \in {"$", "&", "`", "'"}
         THEN (CASE repl[2] = "$" -> <<"$">>
                 [] repl[2] = "&" -> matched
                 [] repl[2] = "`" -> before
                 [] repl[2] = "'" -> after)
              \o ExpandReplacement(SubSeq(repl, 3, Len(repl)), matched, before, after)
         ELSE <<Head(repl)>> \o ExpandReplacement(Tail(repl), matched, before, after)

MatchesAt(s, pat, i) ==
    i + Len(pat) - 1 <= Len(s) /\ SubSeq(s, i, i + Len(pat) - 1) = pat

\* the leftmost match at or after position i, 0 when there is none
NextMatch(s, pat, i) ==
    LET hits == {k \in i..Len(s) : MatchesAt(s, pat, k)}
    IN  IF hits = {} THEN 0 ELSE CHOOSE k \in hits : \A h \in hits : k <= h

RECURSIVE ReplaceFrom(_, _, _, _)
ReplaceFrom(s, pat, repl, i) ==
    LET k == NextMatch(s, pat, i)
    IN  IF k = 0 THEN SubSeq(s, i, Len(s))
        ELSE SubSeq(s, i, k - 1)
             \o ExpandReplacement(repl, pat, SubSeq(s, 1, k - 1),
                                  SubSeq(s, k + Len(pat), Len(s)))
             \o ReplaceFrom(s, pat, repl, k + Len(pat))

replace(s, pat, repl) == ReplaceFrom(s, pat, repl, 1)

\* the token the variant replaces by the project name
NamePlaceholder(v) == IF v = "bin" THEN TEMPLATE_NAME ELSE PROJECT_NAME_TOKEN

RewriteManifest(v, text, name) ==
    replace(replace(text, NamePlaceholder(v), name),
            PROJECT_SLUG_TOKEN, slugify(name))

----------------------------------------------------------------------------
(* Fetch specification *)

RECURSIVE StripLeadingSlashes(_)
StripLeadingSlashes(s) ==
    IF s # <<>> /\ Head(s) = "/" THEN StripLeadingSlashes(Tail(s)) ELSE s

RECURSIVE StripTrailingSlashes(_)
StripTrailingSlashes(s) ==
    IF s # <<>> /\ s[Len(s)] = "/"
    THEN StripTrailingSlashes(SubSeq(s, 1, Len(s) - 1))
    ELSE s

\* options.template || 'template' (bin also strips leading slashes here)
templatePath(v, opts) ==
    LET t == IF opts.template # <<>> THEN opts.template ELSE DefaultTemplate
    IN  IF v = "bin" THEN StripLeadingSlashes(t) ELSE t

\* (options.repo || '').trim().replace(/\/+$/, '')
repoBase(opts) == StripTrailingSlashes(trim(opts.repo))

buildSpec(v, base, tpl) ==
    IF tpl = <<".">> THEN base
    ELSE base \o <<"/">> \o (IF v = "bin" THEN tpl ELSE StripLeadingSlashes(tpl))

\* repoBase.replace(/^github:/, '')
fallbackBaseKeepPrefix(base) == base

fallbackBase(base) ==
    IF StartsWith(base, GITHUB_PREFIX)
    THEN SubSeq(base, Len(GITHUB_PREFIX) + 1, Len(base))
    ELSE base

----------------------------------------------------------------------------
(* Command line and option parsing *)

\* { default: false } of the '--no-git' declaration
NoGitDefault == FALSE

\* cac stores the option declared as '--no-git' under the key `git`
\* (negated option); no key `noGit` is ever set.  Declared defaults are
\* applied first, then the flags given on the command line.
ParseOptions(v, av) ==
    [template |-> IF av.template.given THEN av.template.value ELSE DefaultTemplate,
     repo     |-> IF av.repo.given THEN av.repo.value
                  ELSE IF v = "bin" THEN DefaultRepoBin ELSE DefaultRepoUnnamed,
     install  |-> av.install,
     git      |-> IF av.noGit THEN FALSE ELSE NoGitDefault]

\* reading a boolean option; a key that is not set reads as undefined (falsy)
OptionFlag(opts, key) == IF key \in DOMAIN opts THEN opts[key] ELSE FALSE

----------------------------------------------------------------------------
(* Inputs *)

NameApp    == <<"a","p","p">>
NamePadded == <<" ","a"," ">>
NameDollar == <<"$","&">>
NameMixed  == <<"M","y"," ","A","!">>

\* positional [project-name]; <<>> stands for "not given"
ArgNames == {<<>>, NameApp, NamePadded, NameDollar, NameMixed}

\* what the user may type at the "Project name:" prompt
PromptAnswers == {<<>>, <<" ">>, <<" ","b"," ">>, NameApp}

NotGiven == [given |-> FALSE, value |-> <<>>]
Given(value) == [given |-> TRUE, value |-> value]

RepoArgs ==
    {NotGiven,
     Given(GITHUB_PREFIX \o <<"o","/","r","/">>),
     Given(<<" ","o","/","r"," ">>)}

TemplateArgs == {NotGiven, Given(<<".">>), Given(<<"/","t">>)}

ManifestPlain == <<"{","}">>
ManifestBoth ==
    TEMPLATE_NAME \o <<":">> \o PROJECT_NAME_TOKEN \o <<":">> \o
    PROJECT_SLUG_TOKEN \o <<":">> \o PROJECT_NAME_TOKEN \o TEMPLATE_NAME \o
    PROJECT_SLUG_TOKEN

\* package.json as the template repository may deliver it
Manifests == {NoFile, File(ManifestPlain), File(ManifestBoth)}

\* targetDir before the run: missing, an empty directory, a directory with
\* entries, or a regular file
InitialDirs == {"absent", "empty", "nonempty", "file"}

Variants == {"bin", "unnamed"}

----------------------------------------------------------------------------
(* The command action *)

Exit(code, lines) ==
    /\ pc' = "exited"
    /\ exitCode' = code
    /\ out' = out \o lines

\* } catch (err) { console.error('Error:', ...); process.exit(1); }
TopLevelCatch(lines) == Exit(1, lines \o <<Line("Error:", <<>>)>>)

\* validate of the text prompt
validate(value) == value # <<>> /\ Len(trim(value)) > 0

\* projectName = res.name.trim()
promptedName(answer) == trim(answer)

\* 1) resolve the project name
ResolveName ==
    /\ pc = "resolve"
    /\ UNCHANGED <<variant, argv, options, dir, pkg, pkgIn, slug, repoSpec,
                   dirAtFetch>>
    /\ IF argv.name # <<>>
       THEN /\ projectName' = argv.name
            /\ pc' = "guard"
            /\ UNCHANGED <<out, exitCode, effects>>
       ELSE \/ \* onCancel
               /\ effects' = Append(effects, Effect("prompt name", FALSE, <<>>))
               /\ Exit(1, <<Line("Aborted.", <<>>)>>)
               /\ UNCHANGED projectName
            \/ \E answer \in PromptAnswers :
                  /\ validate(answer)
                  /\ effects' = Append(effects, Effect("prompt name", TRUE, answer))
                  /\ projectName' = promptedName(answer)
                  /\ pc' = "guard"
                  /\ UNCHANGED <<out, exitCode>>

Creating == Line("Creating project", projectName)

\* if (!response.overwrite): initial false, so only "yes" confirms
overwriteAlways(answer) == TRUE

overwrite(answer) == answer = <<"yes">>

\* await fs.remove(targetDir)
removeNothing(d) == d

remove(d) == "absent"

\* 2) overwrite guard
Guard ==
    /\ pc = "guard"
    /\ UNCHANGED <<variant, argv, options, projectName, pkg, pkgIn, slug,
                   repoSpec, dirAtFetch>>
    /\ IF dir = "absent"
       THEN \* pathExists is false
            /\ pc' = "fetch"
            /\ out' = out \o <<Creating>>
            /\ UNCHANGED <<dir, effects, exitCode>>
       ELSE IF dir = "file"
       THEN \* readdir rejects (ENOTDIR)
            /\ effects' = Append(effects, Effect("readdir", FALSE, <<>>))
            /\ TopLevelCatch(<<>>)
            /\ UNCHANGED dir
       ELSE IF dir = "empty"
       THEN /\ effects' = Append(effects, Effect("readdir", TRUE, <<>>))
            /\ pc' = "fetch"
            /\ out' = out \o <<Creating>>
            /\ UNCHANGED <<dir, exitCode>>
       ELSE \* files.length is non-zero: confirm prompt
            \/ \* onCancel
               /\ effects' = effects \o <<Effect("readdir", TRUE, <<>>),
                                          Effect("prompt overwrite", FALSE, <<>>)>>
               /\ Exit(1, <<Line("Aborted.", <<>>)>>)
               /\ UNCHANGED dir
            \/ \E answer \in {<<"yes">>, <<"no">>} :
                 LET asked == effects \o <<Effect("readdir", TRUE, <<>>),
                                           Effect("prompt overwrite", TRUE, answer)>>
                 IN  IF ~overwrite(answer)
                     THEN /\ effects' = asked
                          /\ Exit(1, <<Line("Aborting.", <<>>)>>)
                          /\ UNCHANGED dir
                     ELSE \/ \* fs.remove succeeds
                             /\ effects' = Append(asked, Effect("remove", TRUE, <<>>))
                             /\ dir' = remove(dir)
                             /\ pc' = "fetch"
                             /\ out' = out \o <<Creating>>
                             /\ UNCHANGED exitCode
                          \/ \* fs.remove rejects
                             /\ effects' = Append(asked, Effect("remove", FALSE, <<>>))
                             /\ dir' \in {"nonempty", "empty"}
                             /\ TopLevelCatch(<<>>)

FailedClone(spec) == Line("Failed to clone template from", spec)
MakeSure == Line("Make sure the repo and template path are correct and the repo is public (or accessible).", <<>>)
Retrying(failed, next) ==
    Line("Failed to clone from; Retrying with", failed \o <<"|">> \o next)

\* the spec of the first attempt
firstSpec == buildSpec(variant, repoBase(options), templatePath(variant, options))

\* the spec of the fallback attempt (bin only)
fallbackSpec ==
    buildSpec(variant, fallbackBase(repoBase(options)), templatePath(variant, options))

\* 3) first fetch attempt
Fetch ==
    /\ pc = "fetch"
    /\ UNCHANGED <<variant, argv, options, projectName, slug>>
    /\ \/ \* unnamed: degit(repoSpec) itself throws
          /\ variant = "unnamed"
          /\ repoSpec' = firstSpec
          /\ TopLevelCatch(<<Line("Failed to create degit emitter. Check your repo/template path.", <<>>)>>)
          /\ effects' = Append(effects, Effect("degit", FALSE, firstSpec))
          /\ UNCHANGED <<dir, pkg, pkgIn, dirAtFetch>>
       \/ \* clone succeeds
          /\ repoSpec' = firstSpec
          /\ dirAtFetch' = dir
          /\ effects' = Append(effects, Effect("clone", TRUE, firstSpec))
          /\ dir' = "populated"
          /\ pkg' \in Manifests
          /\ pkgIn' = pkg'
          /\ pc' = "rewrite"
          /\ UNCHANGED <<out, exitCode>>
       \/ \* clone fails
          /\ repoSpec' = firstSpec
          /\ dirAtFetch' = dir
          /\ effects' = Append(effects, Effect("clone", FALSE, firstSpec))
          /\ dir' \in {dir, "partial"}
          /\ UNCHANGED <<pkg, pkgIn>>
          /\ IF variant = "bin" /\ StartsWith(repoBase(options), GITHUB_PREFIX)
             THEN /\ out' = Append(out, Retrying(firstSpec, fallbackSpec))
                  /\ pc' = "retry"
                  /\ UNCHANGED exitCode
             ELSE TopLevelCatch(<<FailedClone(firstSpec), MakeSure>>)

\* 3b) fallback attempt (bin): await tryClone(fallbackSpec); repoSpec = fallbackSpec
Retry ==
    /\ pc = "retry"
    /\ UNCHANGED <<variant, argv, options, projectName, slug, dirAtFetch>>
    /\ \/ /\ effects' = Append(effects, Effect("clone", TRUE, fallbackSpec))
          /\ repoSpec' = fallbackSpec
          /\ dir' = "populated"
          /\ pkg' \in Manifests
          /\ pkgIn' = pkg'
          /\ pc' = "rewrite"
          /\ UNCHANGED <<out, exitCode>>
       \/ /\ effects' = Append(effects, Effect("clone", FALSE, fallbackSpec))
          /\ dir' \in {dir, "partial"}
          /\ TopLevelCatch(<<>>)
          /\ UNCHANGED <<repoSpec, pkg, pkgIn>>

\* 4) manifest rewrite
Rewrite ==
    /\ pc = "rewrite"
    /\ UNCHANGED <<variant, argv, options, projectName, dir, pkgIn, repoSpec,
                   dirAtFetch>>
    /\ IF pkg.exists
       THEN \/ \* readFile rejects
               /\ effects' = Append(effects, Effect("readFile", FALSE, <<>>))
               /\ TopLevelCatch(<<>>)
               /\ UNCHANGED <<pkg, slug>>
            \/ \* writeFile succeeds
               /\ slug' = slugify(projectName)
               /\ pkg' = File(RewriteManifest(variant, pkg.text, projectName))
               /\ effects' = effects \o <<Effect("readFile", TRUE, <<>>),
                                          Effect("writeFile", TRUE, <<>>)>>
               /\ pc' = "install"
               /\ UNCHANGED <<out, exitCode>>
            \/ \* writeFile rejects
               /\ slug' = slugify(projectName)
               /\ effects' = effects \o <<Effect("readFile", TRUE, <<>>),
                                          Effect("writeFile", FALSE, <<>>)>>
               /\ TopLevelCatch(<<>>)
               /\ UNCHANGED pkg
       ELSE /\ pc' = "install"
            /\ UNCHANGED <<pkg, slug, effects, out, exitCode>>

\* detectInstaller (unnamed): pnpm, then yarn, else npm; bin always uses npm
Probes(installer) ==
    CASE installer = "pnpm" -> <<Effect("pnpm --version", TRUE, <<>>)>>
      [] installer = "yarn" -> <<Effect("pnpm --version", FALSE, <<>>),
                                 Effect("yarn --version", TRUE, <<>>)>>
      [] installer = "npm"  -> <<Effect("pnpm --version", FALSE, <<>>),
                                 Effect("yarn --version", FALSE, <<>>)>>

Installers(v) == IF v = "bin" THEN {"npm"} ELSE {"pnpm", "yarn", "npm"}

InstallOps == {"pnpm", "yarn", "npm"}

InstallFailedNotice(v) ==
    IF v = "bin"
    THEN Line("npm install failed. You can run it manually inside the new project.", <<>>)
    ELSE Line("Package installation failed. You can run the installer manually inside the new project.", <<>>)

\* what the catch around the install subprocess does: rethrow
installFailureTolerated == FALSE

installFailureFatal == TRUE

\* 5) dependency install
Install ==
    /\ pc = "install"
    /\ UNCHANGED <<variant, argv, options, projectName, dir, pkg, pkgIn, slug,
                   repoSpec, dirAtFetch>>
    /\ IF OptionFlag(options, "install")
       THEN \/ \* bin: await import('execa') rejects, outside the inner try
               /\ variant = "bin"
               /\ effects' = Append(effects, Effect("import execa", FALSE, <<"install">>))
               /\ TopLevelCatch(<<>>)
            \/ \E installer \in Installers(variant), ok \in BOOLEAN :
                 LET probes == IF variant = "bin" THEN <<>> ELSE Probes(installer)
                     ran    == effects \o probes \o <<Effect(installer, ok, <<>>)>>
                     start  == Line("Installing dependencies with", <<installer>>)
                 IN  /\ effects' = ran
                     /\ IF ok
                        THEN /\ out' = out \o <<start, Line("Dependencies installed.", <<>>)>>
                             /\ pc' = "git"
                             /\ UNCHANGED exitCode
                        ELSE IF installFailureFatal
                        THEN TopLevelCatch(<<start, InstallFailedNotice(variant)>>)
                        ELSE /\ out' = out \o <<start>>
                             /\ pc' = "git"
                             /\ UNCHANGED exitCode
       ELSE /\ out' = Append(out, Line("Skipping dependency install.", <<>>))
            /\ pc' = "git"
            /\ UNCHANGED <<effects, exitCode>>

GitOps == {"git init", "git add", "git commit"}

\* the subprocesses the git block runs, given which of them succeed
GitRun(initOk, addOk, commitOk) ==
    <<Effect("git init", initOk, <<>>)>>
    \o (IF initOk THEN <<Effect("git add", addOk, <<>>)>> ELSE <<>>)
    \o (IF initOk /\ addOk THEN <<Effect("git commit", commitOk, <<>>)>> ELSE <<>>)

GitNotice(initOk, addOk, commitOk) ==
    IF initOk /\ addOk
    THEN IF commitOk
         THEN Line("Initialized git repository and made initial commit.", <<>>)
         ELSE Line("Initialized git repository (commit skipped).", <<>>)
    ELSE Line("Git init failed (git may be missing). Continuing without git.", <<>>)

SkipGitNotice == Line("Skipping git initialization (--no-git).", <<>>)

\* the outer catch of the git block swallows the error
gitFailureFatal(initOk, addOk) == ~(initOk /\ addOk)

gitFailureThrows(initOk, addOk) == FALSE

\* 6) version control
Git ==
    /\ pc = "git"
    /\ UNCHANGED <<variant, argv, options, projectName, dir, pkg, pkgIn, slug,
                   repoSpec, dirAtFetch>>
    /\ IF ~OptionFlag(options, "noGit")
       THEN \/ \* bin: await import('execa') rejects, inside the try
               /\ variant = "bin"
               /\ effects' = Append(effects, Effect("import execa", FALSE, <<"git">>))
               /\ out' = Append(out, GitNotice(FALSE, FALSE, FALSE))
               /\ pc' = "summary"
               /\ UNCHANGED exitCode
            \/ \E initOk \in BOOLEAN, addOk \in BOOLEAN, commitOk \in BOOLEAN :
                  /\ effects' = effects \o GitRun(initOk, addOk, commitOk)
                  /\ IF gitFailureThrows(initOk, addOk)
                     THEN TopLevelCatch(<<>>)
                     ELSE /\ out' = Append(out, GitNotice(initOk, addOk, commitOk))
                          /\ pc' = "summary"
                          /\ UNCHANGED exitCode
       ELSE /\ out' = Append(out, SkipGitNotice)
            /\ pc' = "summary"
            /\ UNCHANGED <<effects, exitCode>>

Done == Line("Done!", <<>>)

\* 7) final summary; the action returns and the process ends with code 0
Summary ==
    /\ pc = "summary"
    /\ UNCHANGED <<variant, argv, options, projectName, dir, pkg, pkgIn, slug,
                   repoSpec, dirAtFetch, effects, exitCode>>
    /\ out' = out \o <<Done,
                       Line("Next steps", IF OptionFlag(options, "install")
                                          THEN <<>>
                                          ELSE <<"npm install  (if you skipped installation)">>)>>
    /\ pc' = "done"

----------------------------------------------------------------------------
(* Specifications *)

Quiet ==
    /\ dir \in InitialDirs
    /\ pkg = NoFile
    /\ pkgIn = NoFile
    /\ slug = <<>>
    /\ repoSpec = <<>>
    /\ dirAtFetch = "unset"
    /\ effects = <<>>
    /\ out = <<>>
    /\ exitCode = 0

CommandLines ==
    [name : ArgNames, template : TemplateArgs, repo : RepoArgs,
     install : BOOLEAN, noGit : BOOLEAN]

\* the state when cac calls the action
Init ==
    /\ variant \in Variants
    /\ argv \in CommandLines
    /\ options = ParseOptions(variant, argv)
    /\ projectName = argv.name
    /\ pc = "resolve"
    /\ Quiet

Next ==
    \/ ResolveName
    \/ Guard
    \/ Fetch
    \/ Retry
    \/ Rewrite
    \/ Install
    \/ Git
    \/ Summary

Spec == Init /\ [][Next]_vars

\* runs of src/bin/index.js only
InitBin == Init /\ variant = "bin"

SpecBin == InitBin /\ [][Next]_vars

\* all project names of up to n characters over the alphabet
SlugAlphabet == {" ", "A", "a", "1", "-", "_", "!", "."}

NamesUpTo(n) == UNION {[1..k -> SlugAlphabet] : k \in 0..n}

MyCoolApp == <<"M","y"," ","C","o","o","l"," ","A","p","p","!","!">>

InitSlug ==
    /\ variant \in Variants
    /\ argv = [name |-> <<>>, template |-> NotGiven, repo |-> NotGiven,
               install |-> FALSE, noGit |-> FALSE]
    /\ options = ParseOptions(variant, argv)
    /\ projectName \in NamesUpTo(MaxLen) \cup {MyCoolApp}
    /\ pc = "slugify"
    /\ Quiet
    /\ dir = "absent"

\* const slug = slugify(projectName)
SlugifyCall ==
    /\ pc = "slugify"
    /\ slug' = slugify(projectName)
    /\ pc' = "slugified"
    /\ UNCHANGED <<variant, argv, options, projectName, dir, pkg, pkgIn,
                   repoSpec, dirAtFetch, effects, out, exitCode>>

SpecSlug == InitSlug /\ [][SlugifyCall]_vars

----------------------------------------------------------------------------
(* Vocabulary of the properties *)

Terminated == pc \in {"done", "exited"}

Printed(line) == \E i \in DOMAIN out : out[i] = line

Did(ops) == \E i \in DOMAIN effects : effects[i].op \in ops

Failed(ops) == \E i \in DOMAIN effects : effects[i].op \in ops /\ ~effects[i].ok

IsClone(e) == e.op = "clone"

Clones == SelectSeq(effects, IsClone)

CancelledPrompt == Failed({"prompt name", "prompt overwrite"})

DeclinedOverwrite ==
    \E i \in DOMAIN effects :
        /\ effects[i].op = "prompt overwrite"
        /\ effects[i].ok
        /\ effects[i].arg = <<"no">>

FetchFailed ==
    \/ Failed({"degit"})
    \/ Clones # <<>> /\ ~Clones[Len(Clones)].ok /\ pc # "retry"

ImportFailedIn(stage) ==
    \E i \in DOMAIN effects :
        effects[i].op = "import execa" /\ effects[i].arg = <<stage>>

InstallFailed == Failed(InstallOps) \/ ImportFailedIn("install")

FileSystemError == Failed({"readdir", "remove", "readFile", "writeFile"})

LaterStageOps == {"readFile", "writeFile", "import execa", "pnpm --version",
                  "yarn --version"} \cup InstallOps \cup GitOps

\* operations that change targetDir or run inside it
TouchingOps == {"remove", "clone", "writeFile"} \cup InstallOps \cup GitOps

----------------------------------------------------------------------------
(* C1 *)

\* C1 (as stated): when the run has ended, the exit code is non-zero exactly
\* when the run aborted through a cancelled prompt, a declined overwrite, a
\* fetch failure or an install failure; whatever the git steps did, a run
\* with no such abort prints the completion notice and exits with 0.
C1_ExitCodeOnlyFourAborts ==
    Terminated =>
        /\ exitCode # 0 <=>
              (CancelledPrompt \/ DeclinedOverwrite \/ FetchFailed \/ InstallFailed)
        /\ ~(CancelledPrompt \/ DeclinedOverwrite \/ FetchFailed \/ InstallFailed)
              => (pc = "done" /\ exitCode = 0 /\ Printed(Done))

\* C1 (amended): when the run has ended, the exit code is non-zero exactly
\* when the run aborted through a cancelled prompt, a declined overwrite, a
\* fetch failure, an install failure, or another error thrown inside the
\* action (a filesystem call of the guard or of the manifest rewrite
\* rejecting) that the top-level catch turns into exit code 1; the outcomes
\* of git init / add / commit never change it, and a run with no such abort
\* prints the completion notice and exits with 0.
C1_ExitCodeIffAbort ==
    Terminated =>
        /\ exitCode # 0 <=>
              (CancelledPrompt \/ DeclinedOverwrite \/ FetchFailed
               \/ InstallFailed \/ FileSystemError)
        /\ ~(CancelledPrompt \/ DeclinedOverwrite \/ FetchFailed
             \/ InstallFailed \/ FileSystemError)
              => (pc = "done" /\ exitCode = 0 /\ Printed(Done))

C1_Witness ==
    /\ pc = "done"
    /\ exitCode = 0
    /\ Printed(Done)
    /\ \E i \in DOMAIN effects : effects[i].op = "git commit" /\ ~effects[i].ok

----------------------------------------------------------------------------
(* C2 *)

\* C2: when the first clone starts, targetDir is absent or empty, and a run
\* whose guard did not clear the way (cancelled or declined prompt, readdir
\* or remove rejecting) has exited without any fetch attempt.
C2_DirectoryClearBeforeFetch ==
    /\ pc = "fetch" => dir \in {"absent", "empty"}
    /\ Clones # <<>> => dirAtFetch \in {"absent", "empty"}
    /\ (Failed({"prompt overwrite", "readdir", "remove"}) \/ DeclinedOverwrite)
          => (pc = "exited" /\ ~Did({"clone", "degit"}))

C2_Witness ==
    /\ \E i \in DOMAIN effects : effects[i].op = "remove" /\ effects[i].ok
    /\ Clones # <<>>
    /\ dirAtFetch = "absent"

----------------------------------------------------------------------------
(* C3 *)

\* C3: after a declined overwrite the process has exited with a non-zero
\* code, targetDir is still the non-empty directory it was, and nothing was
\* removed, fetched, written or run in it.
C3_DeclineLeavesDirectory ==
    DeclinedOverwrite =>
        /\ pc = "exited"
        /\ exitCode # 0
        /\ dir = "nonempty"
        /\ ~Did(TouchingOps)
        /\ Printed(Line("Aborting.", <<>>))

C3_Witness == DeclinedOverwrite /\ pc = "exited" /\ dir = "nonempty"

----------------------------------------------------------------------------
(* C4 *)

WithoutPrefix(spec) == SubSeq(spec, Len(GITHUB_PREFIX) + 1, Len(spec))

----------------------------------------------------------------------------
(* C5 *)

\* C5: for every project name, slugify(name) has no uppercase letter, no
\* whitespace, no hyphen at either end and no two hyphens in a row; and
\* "My Cool App!!" gives "my-cool-app".
C5_SlugShape ==
    pc = "slugified" =>
        /\ \A i \in DOMAIN slug :
              /\ slug[i] \notin WhiteSpace
              /\ \A k \in 1..26 : slug[i] # UpperCase[k]
        /\ slug # <<>> => (slug[1] # "-" /\ slug[Len(slug)] # "-")
        /\ \A i \in 1..(Len(slug) - 1) : ~(slug[i] = "-" /\ slug[i + 1] = "-")
        /\ projectName = MyCoolApp =>
              slug = <<"m","y","-","c","o","o","l","-","a","p","p">>

C5_Witness ==
    /\ pc = "slugified"
    /\ projectName = MyCoolApp
    /\ slug = <<"m","y","-","c","o","o","l","-","a","p","p">>

----------------------------------------------------------------------------
(* C6 *)

Occurs(text, token) == \E i \in 1..Len(text) : MatchesAt(text, token, i)

\* every occurrence of nameToken becomes name and every occurrence of
\* slugToken becomes slugText, taken literally
RECURSIVE Substituted(_, _, _, _, _, _)
Substituted(text, nameToken, name, slugToken, slugText, i) ==
    LET n == NextMatch(text, nameToken, i)
        m == NextMatch(text, slugToken, i)
    IN  IF n = 0 /\ m = 0 THEN SubSeq(text, i, Len(text))
        ELSE IF m = 0 \/ (n # 0 /\ n <= m)
        THEN SubSeq(text, i, n - 1) \o name
             \o Substituted(text, nameToken, name, slugToken, slugText,
                            n + Len(nameToken))
        ELSE SubSeq(text, i, m - 1) \o slugText
             \o Substituted(text, nameToken, name, slugToken, slugText,
                            m + Len(slugToken))

ManifestWritten ==
    \E i \in DOMAIN effects : effects[i].op = "writeFile" /\ effects[i].ok

\* C6: once a manifest that held both placeholders has been written back,
\* neither placeholder occurs in it and it is the delivered text with every
\* name placeholder replaced by the project name and every slug placeholder
\* by the slug.
C6_PlaceholdersReplaced ==
    (/\ ManifestWritten
     /\ Occurs(pkgIn.text, NamePlaceholder(variant))
     /\ Occurs(pkgIn.text, PROJECT_SLUG_TOKEN)) =>
        /\ ~Occurs(pkg.text, NamePlaceholder(variant))
        /\ ~Occurs(pkg.text, PROJECT_SLUG_TOKEN)
        /\ pkg.text = Substituted(pkgIn.text, NamePlaceholder(variant), projectName,
                                  PROJECT_SLUG_TOKEN, slug, 1)

----------------------------------------------------------------------------
(* C7 *)

\* C7: with --no-git on the command line no git subprocess is run, and a
\* finished run has printed the skip notice.
C7_NoGitRunsNoGit ==
    argv.noGit =>
        /\ ~Did(GitOps)
        /\ pc \in {"summary", "done"} => Printed(SkipGitNotice)

----------------------------------------------------------------------------
(* C8 *)

\* C8: in a run that got past the input resolver, the project name is not
\* empty and has no leading or trailing whitespace.
C8_NameTrimmedNonEmpty ==
    pc \notin {"resolve", "slugify", "slugified"} /\ ~Failed({"prompt name"}) =>
        /\ projectName # <<>>
        /\ projectName = trim(projectName)

----------------------------------------------------------------------------
(* C9 *)

\* C9: when the last clone attempt of an ended run failed, the error naming
\* that attempt's spec and the "make sure ... accessible" note have been
\* printed, and the exit code is non-zero.
C9_FinalFetchFailureIsDescribed ==
    (Terminated /\ Clones # <<>> /\ ~Clones[Len(Clones)].ok) =>
        /\ Printed(FailedClone(Clones[Len(Clones)].arg))
        /\ Printed(MakeSure)
        /\ exitCode # 0

----------------------------------------------------------------------------
(* C10 *)

StageOf(op) ==
    CASE op = "prompt name" -> 0
      [] op \in {"readdir", "prompt overwrite", "remove"} -> 1
      [] op \in {"degit", "clone"} -> 2
      [] op \in {"readFile", "writeFile"} -> 3
      [] op \in {"pnpm --version", "yarn --version"} \cup InstallOps -> 4
      [] op \in GitOps -> 5
      [] op = "import execa" -> 4

StageOfEffect(e) ==
    IF e.op = "import execa" /\ e.arg = <<"git">> THEN 5 ELSE StageOf(e.op)

\* C10: the calls a run makes follow the order guard, fetch, manifest
\* rewrite, install, version control, and the completion notice is printed
\* only by a finished run; after a final fetch failure there is no manifest
\* write, install or git subprocess, and after an install failure there is
\* no git subprocess and no completion notice.
C10_StagesInOrderAndFatalStops ==
    /\ \A i, j \in DOMAIN effects :
          i < j => StageOfEffect(effects[i]) <= StageOfEffect(effects[j])
    /\ Printed(Done) => pc = "done"
    /\ FetchFailed => (~Did(LaterStageOps) /\ ~Printed(Done))
    /\ Failed(InstallOps) => (~Did(GitOps) /\ ~Printed(Done) /\ pc = "exited")

C10_Witness ==
    /\ Failed(InstallOps)
    /\ pc = "exited"
    /\ exitCode # 0
    /\ \E i \in DOMAIN effects : effects[i].op = "clone" /\ effects[i].ok

====
